---- MODULE Spec2Model ----
(***************************************************************************)
(* A model of streamlit_app.py: the duration formatter, the video filter,  *)
(* the trending-video fetch, and the credential store with the login /     *)
(* admin-panel script that every browser session re-runs on each           *)
(* interaction.                                                            *)
(*                                                                         *)
(* Python strings are sequences of one-character strings, so that          *)
(* lower(), substring search, the regular expression and the f-string      *)
(* formatting are computed rather than assumed.                            *)
(***************************************************************************)
EXTENDS Integers, Sequences, FiniteSets, TLC

VARIABLES
    duration_str,           \* format_duration: the argument
    duration_out,           \* format_duration: the returned string
    dpc,                    \* "call" before the function ran, "done" after
    chart,                  \* main: the list fetch_popular_videos returned in the last run
    categories,             \* main: what get_video_categories returned in the last run
    search_query,           \* main: the text input
    selected_categories,    \* main: the category names picked in the multiselect
    slider,                 \* main: the range slider, <<low, high>> in units of 10,000 views
    filtered_videos,        \* main: what filter_videos returned in the last run
    view,                   \* main: what the last run rendered
    pristine,               \* main: no widget has been touched since the session opened
    service,                \* fetch: whether get_youtube_service can build a client
    response,               \* fetch: what the provider does with the request
    fetch_out,              \* fetch: how fetch_popular_videos ended, and its list
    fpc,                    \* fetch: "call" before the function ran, "done" after
    file,                   \* .streamlit/config.yaml: empty (just truncated) or the users
    authentication_status,  \* per session: st.session_state['authentication_status']
    username,               \* per session: st.session_state['username']
    show_admin,             \* per session: st.session_state.get('show_admin', False)
    page,                   \* per session: what the last run of the script rendered
    user_role,              \* per session: the role the last run looked up, if it did
    pc,                     \* per session: "idle", or the step its run is about to take
    event,                  \* per session: the widget event its run has still to handle
    pending                 \* per session: the users mapping its run is about to write

dvars == <<duration_str, duration_out, dpc>>
mvars == <<chart, categories, search_query, selected_categories, slider, filtered_videos,
           view, pristine>>

fvars == <<service, response, fetch_out, fpc>>

avars == <<file, authentication_status, username, show_admin, page, user_role, pc, event,
           pending>>

vars == <<dvars, mvars, fvars, avars>>

(***************************************************************************)
(* Strings                                                                 *)
(***************************************************************************)
Digits == <<"0", "1", "2", "3", "4", "5", "6", "7", "8", "9">>

IsDigit(c) == \E i \in 1..10 : Digits[i] = c

DigitVal(c) == CHOOSE i \in 0..9 : Digits[i + 1] = c

\* str(n) for n >= 0
RECURSIVE ToStr(_)
ToStr(n) == IF n < 10 THEN <<Digits[n + 1]>>
            ELSE ToStr(n \div 10) \o <<Digits[(n % 10) + 1]>>

\* the number a run of digits writes
RECURSIVE ParseInt(_)
ParseInt(s) == IF Len(s) = 0 THEN 0
               ELSE 10 * ParseInt(SubSeq(s, 1, Len(s) - 1)) + DigitVal(s[Len(s)])

\* f"{n:02d}"
Pad2(n) == IF n < 10 THEN <<"0">> \o ToStr(n) ELSE ToStr(n)

(***************************************************************************)
(* format_duration                                                         *)
(***************************************************************************)
\* the length of the run of digits of s that starts at position i: \d+
RECURSIVE DigitRun(_, _)
DigitRun(s, i) == IF i <= Len(s) /\ IsDigit(s[i]) THEN 1 + DigitRun(s, i + 1) ELSE 0

\* One optional group of the pattern, (?:X(\d+)X)?, tried at position pos: the
\* unit letter, one or more digits, the unit letter again.  group <<>> is
\* Python's None (the group did not take part in the match).
ReOptGroup(s, pos, letter) ==
    LET n == DigitRun(s, pos + 1) IN
    IF /\ pos <= Len(s)
       /\ s[pos] = letter
       /\ n >= 1
       /\ pos + 1 + n <= Len(s)
       /\ s[pos + 1 + n] = letter
    THEN [group |-> SubSeq(s, pos + 1, pos + n), next |-> pos + n + 2]
    ELSE [group |-> <<>>, next |-> pos]

\* re.match(r'PT(?:H(\d+)H)?(?:M(\d+)M)?(?:S(\d+)S)?', s): anchored at the start
\* only; every group is optional, so the match succeeds as soon as s starts PT.
ReMatch(s) ==
    IF Len(s) >= 2 /\ s[1] = "P" /\ s[2] = "T"
    THEN LET g1 == ReOptGroup(s, 3, "H")
             g2 == ReOptGroup(s, g1.next, "M")
             g3 == ReOptGroup(s, g2.next, "S")
         IN  [matched |-> TRUE, h |-> g1.group, m |-> g2.group, s |-> g3.group]
    ELSE [matched |-> FALSE, h |-> <<>>, m |-> <<>>, s |-> <<>>]

format_duration(str) ==
    LET time_match == ReMatch(str) IN
    IF ~time_match.matched THEN <<"0", ":", "0", "0">>
    ELSE LET hours   == IF time_match.h # <<>> THEN ParseInt(time_match.h) ELSE 0
             minutes == IF time_match.m # <<>> THEN ParseInt(time_match.m) ELSE 0
             seconds == IF time_match.s # <<>> THEN ParseInt(time_match.s) ELSE 0
         IN  IF hours > 0
             THEN ToStr(hours) \o <<":">> \o Pad2(minutes) \o <<":">> \o Pad2(seconds)
             ELSE ToStr(minutes) \o <<":">> \o Pad2(seconds)

(***************************************************************************)
(* The durations format_duration is applied to.  A component is <<n>>, or  *)
(* <<>> when the duration has none.                                        *)
(***************************************************************************)
HourValues == {<<>>, <<0>>, <<1>>, <<12>>}
MinuteValues == {<<>>, <<0>>, <<2>>, <<4>>, <<45>>}
SecondValues == {<<>>, <<0>>, <<3>>, <<5>>}

Component(c, letter) == IF c = <<>> THEN <<>> ELSE ToStr(c[1]) \o <<letter>>

\* 'PT' followed by optional '<h>H', optional '<m>M', optional '<s>S'
IsoDuration(h, m, s) ==
    <<"P", "T">> \o Component(h, "H") \o Component(m, "M") \o Component(s, "S")

IsoDurations ==
    {IsoDuration(h, m, s) : h \in HourValues, m \in MinuteValues, s \in SecondValues}

\* strings of the shape the pattern of the code accepts, and strings that are
\* no duration at all
OtherDurations ==
    { <<"P", "T", "H", "1", "H", "M", "2", "M", "S", "3", "S">>,
      <<"P", "T", "M", "4", "M", "S", "5", "S">>,
      <<"P", "T", "S", "7", "S">>,
      <<"P", "T", "H", "1", "M">>,
      <<"P", "1", "D", "T", "2", "H">>,
      <<"1", "H">>,
      <<>> }

DurationInputs == IsoDurations \cup OtherDurations

(***************************************************************************)
(* filter_videos                                                           *)
(***************************************************************************)
UpperCase == <<"A", "B", "C", "D", "E", "F", "G", "H", "I", "J", "K", "L", "M",
               "N", "O", "P", "Q", "R", "S", "T", "U", "V", "W", "X", "Y", "Z">>
LowerCase == <<"a", "b", "c", "d", "e", "f", "g", "h", "i", "j", "k", "l", "m",
               "n", "o", "p", "q", "r", "s", "t", "u", "v", "w", "x", "y", "z">>

LowerChar(c) == IF \E i \in 1..26 : UpperCase[i] = c
                THEN LowerCase[CHOOSE i \in 1..26 : UpperCase[i] = c]
                ELSE c

\* str.lower()
Lower(s) == [i \in 1..Len(s) |-> LowerChar(s[i])]

\* needle in haystack, for Python strings
Contains(needle, haystack) ==
    \E i \in 0..(Len(haystack) - Len(needle)) :
        SubSeq(haystack, i + 1, i + Len(needle)) = needle

\* The three list comprehensions of filter_videos, one after the other, each
\* behind the truthiness test of its argument.  selected is the list of category
\* ids, used for membership only; range is the tuple (min_views, max_views).
QueryStep(videos, query) ==
    IF query # <<>>
    THEN LET q == Lower(query) IN
         SelectSeq(videos, LAMBDA v : \/ Contains(q, Lower(v.title))
                                      \/ Contains(q, Lower(v.channel)))
    ELSE videos

CategoryStep(videos, selected) ==
    IF selected # {}
    THEN SelectSeq(videos, LAMBDA v : v.category_id \in selected)
    ELSE videos

RangeStepStrict(videos, range) ==
    IF range # <<>>
    THEN SelectSeq(videos, LAMBDA v : range[1] <= v.view_count /\ v.view_count < range[2])
    ELSE videos

RangeStep(videos, range) ==
    IF range # <<>>
    THEN SelectSeq(videos, LAMBDA v : range[1] <= v.view_count /\ v.view_count <= range[2])
    ELSE videos

filter_videos(videos, query, selected, range) ==
    RangeStep(CategoryStep(QueryStep(videos, query), selected), range)

(***************************************************************************)
(* main: the widgets, the categories, the fetch and the filter of one run  *)
(* of the page                                                             *)
(***************************************************************************)
SliderMin == 0
SliderMax == 10000
SliderStep == 10
ViewsPerUnit == 10000

DefaultSliderFull == <<SliderMin, SliderMax>>

\* the value the slider starts with
DefaultSlider == <<0, 1000>>

\* What the provider does with a run's videoCategories request: it lists
\* categories as <<id, title>>, answers without items, or raises.
CategoryLists ==
    { << <<"2", "Autos">>, <<"10", "Music">> >>,
      << <<"10", "Cars">>, <<"2", "Music">>, <<"10", "Autos">> >> }

CategoryAnswers ==
    {[kind |-> "items", items |-> l] : l \in CategoryLists}
    \cup {[kind |-> "no_items", items |-> <<>>], [kind |-> "error", items |-> <<>>]}

\* categories[id] = title on a dict kept as the sequence of its <<id, title>>
\* entries: a new id is added at the end, an id the dict has keeps its place
\* and takes the new title
SetItem(dict, id, title) ==
    IF \E i \in 1..Len(dict) : dict[i][1] = id
    THEN [i \in 1..Len(dict) |-> IF dict[i][1] = id THEN <<id, title>> ELSE dict[i]]
    ELSE Append(dict, <<id, title>>)

\* the loop over the items of the answer, from the empty dict
RECURSIVE DictOfItems(_)
DictOfItems(items) ==
    IF items = <<>> THEN <<>>
    ELSE LET item == items[Len(items)] IN
         SetItem(DictOfItems(SubSeq(items, 1, Len(items) - 1)), item[1], item[2])

\* get_video_categories: the dict id -> title built from the items of the
\* answer; {} when the answer has no items and when the request raises
get_video_categories(answer) ==
    IF answer.kind = "items" THEN DictOfItems(answer.items) ELSE <<>>

\* what a run's call of get_video_categories can return
CategoryMaps == {get_video_categories(answer) : answer \in CategoryAnswers}

\* list(categories.values()), the options of the multiselect
Options(cats) == [i \in 1..Len(cats) |-> cats[i][2]]

CategoryNames(cats) == {cats[i][2] : i \in 1..Len(cats)}

\* the category names picked, turned into the list of their ids
SelectedCategoryIds(cats, names) ==
    {cats[i][1] : i \in {j \in 1..Len(cats) : cats[j][2] \in names}}

\* What the multiselect returns in a run: a selection among this run's options.
\* The widget keeps what was picked while its options are those of the last
\* run; with other options it is another widget, which starts with default=[].
Multiselect(last, cats, picked) ==
    IF Options(cats) = Options(last) THEN picked ELSE {}

\* the slider's units of 10,000 views turned into views
ViewCountRange(sl) == <<sl[1] * ViewsPerUnit, sl[2] * ViewsPerUnit>>

Str_Cat == <<"C", "a", "t">>
Str_Pets == <<"P", "e", "t", "s">>
Str_CAR == <<"C", "A", "R">>
Str_Autos == <<"A", "u", "t", "o", "s">>
Str_News == <<"N", "e", "w", "s">>
Str_Oscar == <<"O", "s", "c", "a", "r">>
Str_Art == <<"a", "r", "t">>

\* the video records a fetch can return
VideoPool ==
    { [id |-> "v1", title |-> Str_CAR,  channel |-> Str_Autos, view_count |-> 10000000,
       category_id |-> "2"],
      [id |-> "v2", title |-> Str_News, channel |-> Str_Oscar, view_count |-> 20000000,
       category_id |-> ""],
      [id |-> "v3", title |-> Str_Art,  channel |-> Str_Pets,  view_count |-> 100000000,
       category_id |-> "10"] }

MaxVideos == 2

\* the lists a fetch can return: a chart names a video once
Charts ==
    UNION {{c \in [1..n -> VideoPool] : \A i, j \in 1..n : c[i] = c[j] => i = j} :
           n \in 0..MaxVideos}

Queries == { <<>>, <<"C", "a", "R">>, <<"p", "E">> }

\* slider positions: the two ends, the default high end, all multiples of the step
SliderStops == {SliderMin, 100 * SliderStep, SliderMax}

\* the ranges the slider is moved to: low end below high end, or both at the top
SliderValues ==
    {sl \in SliderStops \X SliderStops : sl[1] < sl[2] \/ sl = <<SliderMax, SliderMax>>}

\* the test beside "not filtered_videos" that decides the no-match warning
Restricts(query, names, range) ==
    \/ query # <<>>
    \/ names # {}
    \/ range[1] > 0
    \/ range[2] < 100000000

\* One run of main() from the fetch on: return early on an empty fetch, filter.
MainRun(videos, query, ids, sl) ==
    IF videos = <<>>
    THEN [filtered |-> <<>>]
    ELSE [filtered |-> filter_videos(videos, query, ids, ViewCountRange(sl))]
(***************************************************************************)
(* fetch_popular_videos                                                    *)
(***************************************************************************)
\* the vertical tab, U+000B, as one character
VerticalTab == ""

Str_500 == <<"5", "0", "0">>
Str_7 == <<"7">>
Str_NA == <<"n", "/", "a">>
Str_Minus3 == <<"-", "3">>
Str_Padded == <<" ", VerticalTab, "+", "1", "_", "0", "0", "0", VerticalTab, "\n">>
Str_PT4M5S == <<"P", "T", "4", "M", "5", "S">>
Str_PT0S == <<"P", "T", "0", "S">>

AllKeys == {"id", "snippet", "title", "channelTitle", "thumbnails", "high",
            "statistics", "viewCount", "likeCount", "commentCount",
            "contentDetails", "duration"}

\* An item of the provider's response: keys is the set of keys present (at any
\* depth), the other fields the values under them.
Item(id, keys, views) ==
    [id |-> id, keys |-> keys, title |-> Str_Cat, channelTitle |-> Str_Pets,
     viewCount |-> views, likeCount |-> Str_7, commentCount |-> Str_7,
     duration |-> Str_PT4M5S]

ItemPool ==
    { Item("full", AllKeys, Str_500),
      Item("nostats", AllKeys \ {"statistics", "viewCount", "likeCount", "commentCount"},
           Str_500),
      Item("nolikes", AllKeys \ {"likeCount"}, Str_500),
      Item("nodetails", AllKeys \ {"contentDetails", "duration"}, Str_500),
      Item("notitle", AllKeys \ {"title"}, Str_500),
      Item("nochannel", AllKeys \ {"channelTitle"}, Str_500),
      Item("nothumbs", AllKeys \ {"thumbnails", "high"}, Str_500),
      Item("lowthumb", AllKeys \ {"high"}, Str_500),
      Item("nosnippet", AllKeys \ {"snippet", "title", "channelTitle", "thumbnails", "high"},
           Str_500),
      Item("badcount", AllKeys, Str_NA),
      Item("signedcount", AllKeys, Str_Minus3),
      Item("paddedcount", AllKeys, Str_Padded) }

MaxItems == 2

ItemLists == UNION {[1..n -> ItemPool] : n \in 0..MaxItems}

\* the bodies an HttpError can carry in e.content
ErrorBodies == {"error_object", "error_without_message", "no_error_key",
                "error_not_object", "json_not_object", "not_json"}

Responses ==
    {[kind |-> "items", items |-> l, body |-> "none"] : l \in ItemLists}
    \cup {[kind |-> "http_error", items |-> <<>>, body |-> b] : b \in ErrorBodies}
    \cup {[kind |-> "transport_error", items |-> <<>>, body |-> "none"]}

\* the characters int() strips from both ends of a text: ' \t\n\v\f\r'
Whitespace == {" ", "\t", "\n", VerticalTab, "\f", "\r"}

RECURSIVE LStrip(_)
LStrip(s) == IF s # <<>> /\ Head(s) \in Whitespace THEN LStrip(Tail(s)) ELSE s

RECURSIVE RStrip(_)
RStrip(s) == IF s # <<>> /\ s[Len(s)] \in Whitespace
             THEN RStrip(SubSeq(s, 1, Len(s) - 1)) ELSE s

\* digits, with single underscores allowed between two digits
IsDigitGroups(s) ==
    /\ Len(s) > 0
    /\ IsDigit(s[1])
    /\ IsDigit(s[Len(s)])
    /\ \A i \in 1..Len(s) :
          \/ IsDigit(s[i])
          \/ s[i] = "_" /\ IsDigit(s[i - 1]) /\ IsDigit(s[i + 1])

\* int(text) for a text of ASCII characters: white space around the number is
\* dropped, one sign may come first, underscores between digits are skipped;
\* any other text raises ValueError (ok is FALSE)
int(text) ==
    LET t      == RStrip(LStrip(text))
        signed == t # <<>> /\ t[1] \in {"+", "-"}
        body   == IF signed THEN Tail(t) ELSE t
        number == ParseInt(SelectSeq(body, IsDigit))
    IN  IF IsDigitGroups(body)
        THEN [ok |-> TRUE, n |-> IF signed /\ t[1] = "-" THEN 0 - number ELSE number]
        ELSE [ok |-> FALSE, n |-> 0]

\* int(stats.get(key, 0)): 0 for a missing key, else int() of the text
CountOf(item, key, text) ==
    IF key \notin item.keys THEN [ok |-> TRUE, n |-> 0] ELSE int(text)

\* The body of the loop for one item.  kept is FALSE when the item is passed
\* over: by the continue on a missing field, or by the exception handler of the
\* loop (KeyError on id, snippet or the high thumbnail, ValueError on a count).
ProcessItem(item) ==
    LET views    == CountOf(item, "viewCount", item.viewCount)
        likes    == CountOf(item, "likeCount", item.likeCount)
        comments == CountOf(item, "commentCount", item.commentCount)
        video    == [id |-> item.id, title |-> item.title, channel |-> item.channelTitle,
                     view_count |-> views.n, like_count |-> likes.n,
                     comment_count |-> comments.n,
                     duration |-> format_duration(IF "duration" \in item.keys
                                                  THEN item.duration ELSE Str_PT0S)]
    IN  [kept |-> /\ "id" \in item.keys
                  /\ "snippet" \in item.keys
                  /\ {"title", "channelTitle", "thumbnails"} \subseteq item.keys
                  /\ "high" \in item.keys
                  /\ views.ok /\ likes.ok /\ comments.ok,
         video |-> video]

RECURSIVE ProcessItems(_)
ProcessItems(items) ==
    IF items = <<>> THEN <<>>
    ELSE LET r == ProcessItem(Head(items)) IN
         (IF r.kept THEN <<r.video>> ELSE <<>>) \o ProcessItems(Tail(items))

\* The except HttpError clause: json.loads(e.content).get('error', {}), then
\* .get('message', ...) on what that gave.  An exception raised here is raised
\* inside a handler, so the except Exception clause beside it does not see it.
HttpErrorHandler(body) ==
    CASE body = "not_json"         -> [outcome |-> "raised", raised |-> "JSONDecodeError"]
      [] body = "json_not_object"  -> [outcome |-> "raised", raised |-> "AttributeError"]
      [] body = "error_not_object" -> [outcome |-> "raised", raised |-> "AttributeError"]
      [] OTHER                     -> [outcome |-> "returned", raised |-> "none"]

fetch_popular_videos(svc, resp) ==
    IF svc # "ok"
    THEN \* get_youtube_service reports the failure and calls st.stop()
         [outcome |-> "stopped", raised |-> "none", videos |-> <<>>]
    ELSE CASE resp.kind = "items" ->
                [outcome |-> "returned", raised |-> "none",
                 videos |-> ProcessItems(resp.items)]
           [] resp.kind = "http_error" ->
                [outcome |-> HttpErrorHandler(resp.body).outcome,
                 raised |-> HttpErrorHandler(resp.body).raised,
                 videos |-> <<>>]
           [] OTHER ->
                [outcome |-> "returned", raised |-> "none", videos |-> <<>>]

(***************************************************************************)
(* The credential store, the login flow and the admin panel                *)
(***************************************************************************)
Sessions == {"s1", "s2"}

\* bcrypt: the hash carries its salt, and a password verifies against a hash
\* when hashing it with that salt gives the same digest (the check is made by
\* the authenticator package)
Digest(password, salt) == <<"bcrypt", salt, password>>

hashpw(password, salt) == [salt |-> salt, digest |-> Digest(password, salt)]

checkpw(password, hashed) == Digest(password, hashed.salt) = hashed.digest

\* the salts bcrypt.gensalt() can draw
Salts == {"salt1", "salt2"}

UserRecord(name, email, password, salt, role) ==
    [name |-> name, email |-> email, password |-> hashpw(password, salt), role |-> role]

AdminRecord == UserRecord("Administrator", "admin@example.com", "pw1", "salt0", "admin")

\* a mapping with the key k added (or replaced) and with the key k removed
Put(users, k, v) == [x \in DOMAIN users \cup {k} |-> IF x = k THEN v ELSE users[x]]
Del(users, k) == [x \in DOMAIN users \ {k} |-> users[x]]

OnlyAdmin == [x \in {"admin"} |-> AdminRecord]

\* the stores the application is started with: each contains the key admin
InitialStores ==
    { OnlyAdmin,
      Put(OnlyAdmin, "bob", UserRecord("Bob", "bob@example.com", "pw2", "salt0", "user")),
      Put(OnlyAdmin, "bob", UserRecord("Bob", "bob@example.com", "pw2", "salt0", "admin")) }

NoUsers == [x \in {} |-> AdminRecord]

\* The file is a text that loads as a users mapping, or empty (between an
\* open(..., 'w'), which truncates it, and the dump), or the bytes of two dumps
\* laid over each other that do not load.
FileOf(users) == [kind |-> "users", users |-> users]

TruncatedFile == [kind |-> "empty", users |-> NoUsers]

OverlaidFile == [kind |-> "overlaid", users |-> NoUsers]

\* load_auth_config followed by the subscripts config['credentials'][...]: they
\* give the users of a dumped mapping; an empty file loads as None, whose
\* subscript raises, and an overlaid one does not load as a store either
Loads(f) == f.kind = "users"

\* users is part of the mapping f holds, record for record
IsPartOf(users, f) ==
    /\ f.kind = "users"
    /\ DOMAIN users \subseteq DOMAIN f.users
    /\ \A k \in DOMAIN users : users[k] = f.users[k]

\* yaml.dump writes the entries of the users mapping sorted by key, and the
\* fields of a record sorted by name: email, name, password, role
KeyOrder == <<"admin", "bob", "role">>

\* the key of the entry the dump of users ends with
LastKey(users) ==
    KeyOrder[CHOOSE i \in 1..Len(KeyOrder) :
                /\ KeyOrder[i] \in DOMAIN users
                /\ \A j \in (i + 1)..Len(KeyOrder) : KeyOrder[j] \notin DOMAIN users]

\* An overlay can leave, under usernames, the last line of the longer dump as
\* an entry of its own: the key role with the text of a role, which is no
\* record.  No form names a user role, so an entry under this key is never a
\* user's record.
StrayKeys == {"role"}

HasStray(users) == \E k \in DOMAIN users : k \in StrayKeys

\* the record new with its last k fields, in the order of the dump, from old
MixRecord(new, old, k) ==
    [email    |-> IF k >= 4 THEN old.email ELSE new.email,
     name     |-> IF k >= 3 THEN old.name ELSE new.name,
     password |-> IF k >= 2 THEN old.password ELSE new.password,
     role     |-> IF k >= 1 THEN old.role ELSE new.role]

\* The mappings an overlay can load as, when the file held the dump of old and
\* the shorter dump of users was written over its start: what follows the
\* writer's bytes is the tail of old's dump.  When that tail is the last line
\* of old at the indentation of the keys, users has one more entry, role: its
\* text.  When it is the last k lines of old's last record and users ends with
\* a record under the same key, the lines repeat fields of that record and the
\* load keeps the later value of each.
Overlays(old, users) ==
    LET last == LastKey(old)
        line == IF last \in StrayKeys THEN old[last] ELSE old[last].role
    IN  {Put(users, "role", line)}
        \cup (IF last \notin StrayKeys /\ LastKey(users) = last
              THEN {Put(users, last, MixRecord(users[last], old[last], k)) : k \in 1..4}
              ELSE {})

\* yaml.dump and the close of a file opened with 'w'.  The writer's bytes go to
\* the start of the file.  Onto the empty file they are the file.  Onto bytes
\* that another writer has put there since this one's open they replace as
\* many bytes as they are long: the file is this writer's dump when that is
\* the longer one, it stays what it was when this writer's dump is a leading
\* part of it, and it is an overlay of the two otherwise, which loads or does
\* not load.  Which of them it is depends on the lengths of the two texts,
\* which the model does not keep.
DumpOutcomes(f, users) ==
    IF f.kind = "empty"
    THEN {FileOf(users)}
    ELSE {FileOf(users), OverlaidFile}
         \cup (IF IsPartOf(users, f) THEN {f} ELSE {})
         \cup (IF /\ f.kind = "users"
                  /\ ~IsPartOf(users, f)
                  /\ ~IsPartOf(f.users, FileOf(users))
               THEN {FileOf(u) : u \in Overlays(f.users, users)}
               ELSE {})

\* what the forms are filled with
LoginNames == {"admin", "bob"}
Passwords == {"pw1", "pw2"}
Roles == {"user", "admin"}

NoEvent == [kind |-> "none"]
LoginEvent(u, p) == [kind |-> "login", u |-> u, p |-> p]
LogoutEvent == [kind |-> "logout"]
AdminButtonEvent == [kind |-> "admin_button"]
DeleteEvent(u) == [kind |-> "delete", u |-> u]
AddEvent(u, n, e, p, r) ==
    [kind |-> "add", u |-> u, name |-> n, email |-> e, p |-> p, role |-> r]

\* the add-user form filled in completely, for a new and for an existing
\* username and for each role, with a shorter name and email, and with each one
\* of its text fields left empty
AddForms ==
    {AddEvent(u, "Robert", "rob@example.com", "pw1", r) : u \in LoginNames, r \in Roles}
    \cup { AddEvent("bob", "R", "r@example.com", "pw1", "user"),
           AddEvent("", "Robert", "rob@example.com", "pw1", "user"),
           AddEvent("bob", "", "rob@example.com", "pw1", "user"),
           AddEvent("bob", "Robert", "", "pw1", "user"),
           AddEvent("admin", "Robert", "rob@example.com", "", "admin") }

\* authenticator.login, of the streamlit_authenticator package, as the Auth Flow
\* of the specification describes it: a submit of the form checks the
\* credentials the authenticator was built with; a match authenticates the
\* session as that user, anything else leaves it failed with no username
Login(st, users, ev) ==
    IF ev.kind # "login" THEN st
    ELSE IF ev.u \in DOMAIN users /\ checkpw(ev.p, users[ev.u].password)
         THEN [st EXCEPT !.status = "True", !.username = ev.u]
         ELSE [st EXCEPT !.status = "False", !.username = "None"]

\* authenticator.logout, of the same package: a click of the button returns the
\* session to unset
Logout(st, ev) ==
    IF ev.kind # "logout" THEN st
    ELSE [st EXCEPT !.status = "None", !.username = "None"]

DeleteAny(users, u) == TRUE

\* the guard of the delete button
Deletable(users, u) == u # "admin"

AllFilled(ev) == ev.u # "" /\ ev.name # "" /\ ev.email # "" /\ ev.p # ""

\* the guard of the add-user form
IsNew(users, u) == u \notin DOMAIN users

\* admin_page from the load on: the user list with its delete buttons, then the
\* add-user form, on the users mapping the load gave.  Gives the message the
\* panel shows, whether the handler goes on to open the file for writing, and
\* the mapping as the handler leaves it.  salt is what bcrypt.gensalt() draws.
\* The loop over the list takes the entries in the order of the file, the
\* users' records first: a click of a delete button is handled at its entry,
\* and user_info['name'] raises TypeError at an entry that is no record, after
\* which the rest of the page, the add-user form with it, is not reached.
admin_page(users, ev, salt) ==
    CASE ev.kind = "delete" /\ ev.u \in DOMAIN users \ StrayKeys ->
            IF Deletable(users, ev.u)
            THEN [page |-> "admin_saving", write |-> TRUE, users |-> Del(users, ev.u)]
            ELSE IF HasStray(users)
            THEN [page |-> "exception_list_protected", write |-> FALSE, users |-> users]
            ELSE [page |-> "admin_protected", write |-> FALSE, users |-> users]
      [] HasStray(users) ->
            [page |-> "exception_list", write |-> FALSE, users |-> users]
      [] ev.kind = "add" ->
            IF AllFilled(ev)
            THEN IF IsNew(users, ev.u)
                 THEN [page |-> "admin_saving", write |-> TRUE,
                       users |-> Put(users, ev.u,
                                     UserRecord(ev.name, ev.email, ev.p, salt, ev.role))]
                 ELSE [page |-> "admin_duplicate", write |-> FALSE, users |-> users]
            ELSE [page |-> "admin_missing", write |-> FALSE, users |-> users]
      [] OTHER -> [page |-> "admin", write |-> FALSE, users |-> users]

PanelForAnyRole(role) == TRUE

\* the test that guards the admin button and the panel
IsAdminRole(role) == role = "admin"

InitialStatusTrue == "True"

\* the status the script gives a session that has none
InitialStatus == "None"

AdminPages == {"admin", "admin_protected", "admin_duplicate", "admin_missing"}

\* the pages of a run that raised at a load of the file: in get_authenticator,
\* at the role lookup, in admin_page
LoadFailures == {"exception_load", "exception_role", "exception_panel"}

\* the pages of a run that raised in the loop over the user list, without and
\* with the protected-account error above the exception: the delete buttons of
\* the users' records are on them, the add-user form is not
ListFailures == {"exception_list", "exception_list_protected"}

SessionState(s) ==
    [status |-> authentication_status[s], username |-> username[s],
     show_admin |-> show_admin[s]]

Set(f, s, v) == [f EXCEPT ![s] = v]

\* the run of session s ends, having rendered pg
EndRun(s, pg) ==
    /\ page' = Set(page, s, pg)
    /\ pc' = Set(pc, s, "idle")
    /\ event' = Set(event, s, NoEvent)

\* the run of session s goes on to the step at, with the widget event ev still
\* to be handled
GoOn(s, at, ev) ==
    /\ page' = Set(page, s, "running")
    /\ pc' = Set(pc, s, at)
    /\ event' = Set(event, s, ev)

\* The script from its first line to the logout button, for the widget event
\* ev: get_authenticator loads the file, the status is given its initial value,
\* and the login form or the logout button handles its event.  Sessions run in
\* threads of their own and nothing locks the file, so the steps of other
\* sessions' runs fall between this load and the later ones of the same run.
Begin(s, ev) ==
    /\ user_role' = Set(user_role, s, "none")
    /\ IF ~Loads(file)
       THEN /\ EndRun(s, "exception_load")
            /\ UNCHANGED <<authentication_status, username>>
       ELSE IF authentication_status[s] # "True"
       THEN LET st == Login(SessionState(s), file.users, ev) IN
            /\ authentication_status' = Set(authentication_status, s, st.status)
            /\ username' = Set(username, s, st.username)
            /\ EndRun(s, "login")
       ELSE LET st == Logout(SessionState(s), ev) IN
            /\ authentication_status' = Set(authentication_status, s, st.status)
            /\ username' = Set(username, s, st.username)
            /\ GoOn(s, "role", IF ev.kind \in {"login", "logout"} THEN NoEvent ELSE ev)
    /\ UNCHANGED <<file, show_admin, pending, dvars, mvars, fvars>>

\* Each event needs its widget on the page the session is looking at: the login
\* form, the logout button (drawn before the role lookup, so also on the page
\* of a run that raised there or later), the admin button, the panel's buttons
\* and form.  A run without an event (the page opened or reloaded) is always
\* possible.
Rerun(s) ==
    /\ pc[s] = "idle"
    /\ Begin(s, NoEvent)

LoginSubmit(s, u, p) ==
    /\ pc[s] = "idle"
    /\ page[s] = "login"
    /\ Begin(s, LoginEvent(u, p))

LogoutClick(s) ==
    /\ pc[s] = "idle"
    /\ page[s] \in AdminPages \cup ListFailures
                    \cup {"main", "exception_role", "exception_key", "exception_panel"}
    /\ Begin(s, LogoutEvent)

AdminButtonClick(s) ==
    /\ pc[s] = "idle"
    /\ \/ page[s] \in AdminPages \cup ListFailures \cup {"exception_panel"}
       \/ page[s] = "main" /\ user_role[s] = "admin"
    /\ Begin(s, AdminButtonEvent)

DeleteClick(s, u) ==
    /\ pc[s] = "idle"
    /\ page[s] \in AdminPages \cup ListFailures
    /\ Begin(s, DeleteEvent(u))

AddUserSubmit(s, form) ==
    /\ pc[s] = "idle"
    /\ page[s] \in AdminPages
    /\ Begin(s, form)

\* The second load of the run and the role lookup, then the admin button and
\* the choice between the panel and the main page.
LoadRole(s) ==
    /\ pc[s] = "role"
    /\ IF ~Loads(file)
       THEN EndRun(s, "exception_role") /\ UNCHANGED <<user_role, show_admin>>
       ELSE IF username[s] \notin DOMAIN file.users
       THEN \* usernames[st.session_state['username']] raises KeyError
            EndRun(s, "exception_key") /\ UNCHANGED <<user_role, show_admin>>
       ELSE LET role == file.users[username[s]].role
                show == IF IsAdminRole(role) /\ event[s].kind = "admin_button"
                        THEN ~show_admin[s] ELSE show_admin[s]
            IN  /\ user_role' = Set(user_role, s, role)
                /\ show_admin' = Set(show_admin, s, show)
                /\ IF IsAdminRole(role) /\ show
                   THEN GoOn(s, "panel", IF event[s].kind = "admin_button"
                                         THEN NoEvent ELSE event[s])
                   ELSE EndRun(s, "main")
    /\ UNCHANGED <<file, authentication_status, username, pending, dvars, mvars, fvars>>

\* admin_page: the third load of the run, then the handler of the delete button
\* or of the add-user form on the mapping that load gave, up to the point where
\* it either ends the run or is about to open the file for writing.
LoadPanel(s, salt) ==
    /\ pc[s] = "panel"
    /\ IF ~Loads(file)
       THEN EndRun(s, "exception_panel") /\ UNCHANGED pending
       ELSE LET a == admin_page(file.users, event[s], salt) IN
            IF a.write
            THEN /\ page' = Set(page, s, a.page)
                 /\ pc' = Set(pc, s, "open")
                 /\ pending' = Set(pending, s, a.users)
                 /\ UNCHANGED event
            ELSE EndRun(s, a.page) /\ UNCHANGED pending
    /\ UNCHANGED <<file, authentication_status, username, show_admin, user_role,
                   dvars, mvars, fvars>>

\* open('.streamlit/config.yaml', 'w') truncates the file
OpenForWrite(s) ==
    /\ pc[s] = "open"
    /\ file' = TruncatedFile
    /\ pc' = Set(pc, s, "dump")
    /\ event' = Set(event, s, NoEvent)
    /\ UNCHANGED <<authentication_status, username, show_admin, page, user_role,
                   pending, dvars, mvars, fvars>>

\* yaml.dump writes the mapping of this run and the file is closed
Dump(s) ==
    /\ pc[s] = "dump"
    /\ file' \in DumpOutcomes(file, pending[s])
    /\ pc' = Set(pc, s, "rerun")
    /\ pending' = Set(pending, s, NoUsers)
    /\ UNCHANGED <<authentication_status, username, show_admin, page, user_role,
                   event, dvars, mvars, fvars>>

\* st.rerun() ends the run and the script starts again
RerunAfterSave(s) ==
    /\ pc[s] = "rerun"
    /\ Begin(s, NoEvent)

AIdle ==
    /\ file = FileOf(OnlyAdmin)
    /\ authentication_status = [s \in Sessions |-> InitialStatus]
    /\ username = [s \in Sessions |-> "None"]
    /\ show_admin = [s \in Sessions |-> FALSE]
    /\ page = [s \in Sessions |-> "none"]
    /\ user_role = [s \in Sessions |-> "none"]
    /\ pc = [s \in Sessions |-> "idle"]
    /\ event = [s \in Sessions |-> NoEvent]
    /\ pending = [s \in Sessions |-> NoUsers]

(***************************************************************************)
(* The parts of the program that a specification leaves alone                *)
(***************************************************************************)
DIdle == duration_str = <<>> /\ duration_out = <<>> /\ dpc = "idle"

MIdle ==
    /\ chart = <<>>
    /\ categories = <<>>
    /\ search_query = <<>>
    /\ selected_categories = {}
    /\ slider = DefaultSlider
    /\ filtered_videos = <<>>
    /\ view = "idle"
    /\ pristine = TRUE

NoResponse == [kind |-> "none", items |-> <<>>, body |-> "none"]
NotFetched == [outcome |-> "none", raised |-> "none", videos |-> <<>>]

FIdle == service = "ok" /\ response = NoResponse /\ fetch_out = NotFetched /\ fpc = "idle"

(***************************************************************************)
(* SpecDuration: format_duration applied to each input                     *)
(***************************************************************************)
DInit ==
    /\ duration_str \in DurationInputs
    /\ duration_out = <<>>
    /\ dpc = "call"
    /\ MIdle /\ FIdle /\ AIdle

FormatDurationCall ==
    /\ dpc = "call"
    /\ duration_out' = format_duration(duration_str)
    /\ dpc' = "done"
    /\ UNCHANGED <<duration_str, mvars, fvars, avars>>

NextDuration ==
    /\ dpc = "done"
    /\ duration_str' \in DurationInputs
    /\ duration_out' = <<>>
    /\ dpc' = "call"
    /\ UNCHANGED <<mvars, fvars, avars>>

DurationNext == FormatDurationCall \/ NextDuration

SpecDuration == DInit /\ [][DurationNext]_vars

(***************************************************************************)
(* SpecFetch: fetch_popular_videos against each behaviour of the provider  *)
(***************************************************************************)
Services == {"ok", "unavailable"}

FInit ==
    /\ service \in Services
    /\ response \in Responses
    /\ fetch_out = NotFetched
    /\ fpc = "call"
    /\ DIdle /\ MIdle /\ AIdle

FetchCall ==
    /\ fpc = "call"
    /\ fetch_out' = fetch_popular_videos(service, response)
    /\ fpc' = "done"
    /\ UNCHANGED <<service, response, dvars, mvars, avars>>

NextFetch ==
    /\ fpc = "done"
    /\ service' \in Services
    /\ response' \in Responses
    /\ fetch_out' = NotFetched
    /\ fpc' = "call"
    /\ UNCHANGED <<dvars, mvars, avars>>

FetchNext == FetchCall \/ NextFetch

SpecFetch == FInit /\ [][FetchNext]_vars

(***************************************************************************)
(* SpecFilter: the page of main(), re-run on every interaction.  Every run,  *)
(* whatever widget caused it, asks the provider for the categories and for *)
(* the chart again and filters what this run's fetch returned.             *)
(***************************************************************************)
Rendered_main(videos, cats, query, names, sl) ==
    LET selected == Multiselect(categories, cats, names) IN
    /\ chart' = videos
    /\ categories' = cats
    /\ search_query' = query
    /\ selected_categories' = selected
    /\ slider' = sl
    /\ filtered_videos' = MainRun(videos, query, SelectedCategoryIds(cats, selected),
                                  sl).filtered
    /\ view' = IF videos = <<>> THEN "fetch_failed"
               ELSE IF filtered_videos' = <<>> /\ Restricts(query, selected, ViewCountRange(sl))
               THEN "no_match" ELSE "grid"

\* a session that has not run the page yet: the widgets hold their defaults
MInit ==
    /\ chart = <<>>
    /\ categories = <<>>
    /\ search_query = <<>>
    /\ selected_categories = {}
    /\ slider = DefaultSlider
    /\ filtered_videos = <<>>
    /\ view = "none"
    /\ pristine = TRUE
    /\ DIdle /\ FIdle /\ AIdle

TypeSearchQuery ==
    \E q \in Queries, videos \in Charts, cats \in CategoryMaps :
        /\ view # "none"
        /\ q # search_query
        /\ Rendered_main(videos, cats, q, selected_categories, slider)
        /\ pristine' = FALSE
        /\ UNCHANGED <<dvars, fvars, avars>>

PickCategories ==
    \E names \in SUBSET CategoryNames(categories), videos \in Charts,
       cats \in CategoryMaps :
        /\ view # "none"
        /\ names # selected_categories
        /\ Rendered_main(videos, cats, search_query, names, slider)
        /\ pristine' = FALSE
        /\ UNCHANGED <<dvars, fvars, avars>>

MoveSlider ==
    \E sl \in SliderValues, videos \in Charts, cats \in CategoryMaps :
        /\ view # "none"
        /\ sl # slider
        /\ Rendered_main(videos, cats, search_query, selected_categories, sl)
        /\ pristine' = FALSE
        /\ UNCHANGED <<dvars, fvars, avars>>

\* a run with the widgets as they are: the page opened, or the refresh button
Refresh ==
    \E videos \in Charts, cats \in CategoryMaps :
        /\ Rendered_main(videos, cats, search_query, selected_categories, slider)
        /\ UNCHANGED <<pristine, dvars, fvars, avars>>

FilterNext == TypeSearchQuery \/ PickCategories \/ MoveSlider \/ Refresh

SpecFilter == MInit /\ [][FilterNext]_vars

(***************************************************************************)
(* Spec: the sessions of the application over one credentials file         *)
(***************************************************************************)
Init ==
    /\ file \in {FileOf(users) : users \in InitialStores}
    /\ authentication_status = [s \in Sessions |-> InitialStatus]
    /\ username = [s \in Sessions |-> "None"]
    /\ show_admin = [s \in Sessions |-> FALSE]
    /\ page = [s \in Sessions |-> "none"]
    /\ user_role = [s \in Sessions |-> "none"]
    /\ pc = [s \in Sessions |-> "idle"]
    /\ event = [s \in Sessions |-> NoEvent]
    /\ pending = [s \in Sessions |-> NoUsers]
    /\ DIdle /\ MIdle /\ FIdle

Next ==
    \/ \E s \in Sessions : Rerun(s)
    \/ \E s \in Sessions, u \in LoginNames, p \in Passwords : LoginSubmit(s, u, p)
    \/ \E s \in Sessions : LogoutClick(s)
    \/ \E s \in Sessions : AdminButtonClick(s)
    \/ \E s \in Sessions, u \in LoginNames : DeleteClick(s, u)
    \/ \E s \in Sessions, form \in AddForms : AddUserSubmit(s, form)
    \/ \E s \in Sessions : LoadRole(s)
    \/ \E s \in Sessions, salt \in Salts : LoadPanel(s, salt)
    \/ \E s \in Sessions : OpenForWrite(s)
    \/ \E s \in Sessions : Dump(s)
    \/ \E s \in Sessions : RerunAfterSave(s)

Spec == Init /\ [][Next]_vars

(***************************************************************************)
(* C1                                                                      *)
(***************************************************************************)
\* no session is between its open(..., 'w') and its dump
NoWriterHasFileOpen == \A s \in Sessions : pc[s] # "dump"

AdminKeyInFile == Loads(file) /\ "admin" \in DOMAIN file.users

\* every mapping a run is about to write, or is writing, holds the key admin
AdminKeyInWrites ==
    \A s \in Sessions : pc[s] \in {"open", "dump"} => "admin" \in DOMAIN pending[s]

AdminDeleteRejected ==
    \A s \in Sessions, salt \in Salts :
        (event[s] = DeleteEvent("admin") /\ Loads(file) /\ LoadPanel(s, salt)) =>
            /\ page'[s] \in {"admin_protected", "exception_list_protected"}
            /\ file' = file
            /\ pc'[s] = "idle"
            /\ admin_page(file.users, event[s], salt).users = file.users

\* C1: from any store that contains the key admin, after any sequence of panel
\* deletes and adds by any admin-role user the key admin is still in the file:
\* the file holds it whenever no writer has the file open and no two writers'
\* dumps were laid over each other, and no run ever writes a mapping without
\* it; a delete of admin handled by the panel shows the protected-account error
\* and leaves the mapping and the file as they were.
C1_AdminKeyProtected ==
    /\ []((NoWriterHasFileOpen /\ file.kind # "overlaid") => AdminKeyInFile)
    /\ []AdminKeyInWrites
    /\ [][AdminDeleteRejected]_vars

\* an admin-role user other than admin asked for admin's deletion and was
\* refused, after bob's record had been added through the panel
C1_Witness ==
    \E s \in Sessions :
        /\ page[s] = "admin_protected"
        /\ username[s] = "bob"
        /\ AdminKeyInFile
        /\ "bob" \in DOMAIN file.users
        /\ file.users["bob"].name = "Robert"

(***************************************************************************)
(* C2                                                                      *)
(***************************************************************************)
\* the run of session s, handling an add-user submission, opens the file for
\* writing while the submitted username is a key of the store the file holds
AddRewritesExisting(s) ==
    /\ event[s].kind = "add"
    /\ OpenForWrite(s)
    /\ Loads(file)
    /\ event[s].u \in DOMAIN file.users

\* C2: an add-user submission whose username is already a key of the store
\* leaves the store unmodified: the run that handles it never rewrites the
\* credentials file, so the existing record is not replaced.
C2_AddNeverRewritesExisting ==
    [][\A s \in Sessions : ~AddRewritesExisting(s)]_vars

(***************************************************************************)
(* C3                                                                      *)
(***************************************************************************)
ValidCredentials(u, p) ==
    Loads(file) /\ u \in DOMAIN file.users /\ checkpw(p, file.users[u].password)

UsernameIffAuthenticated ==
    \A s \in Sessions : (authentication_status[s] = "True") <=> (username[s] # "None")

AuthFlowStep ==
    \A s \in Sessions :
        \* authenticated only through a valid submit
        /\ (authentication_status[s] # "True" /\ authentication_status'[s] = "True") =>
              \E u \in LoginNames, p \in Passwords :
                  /\ LoginSubmit(s, u, p)
                  /\ ValidCredentials(u, p)
                  /\ username'[s] = u
        \* any other submit the login form handles leaves the session failed; one
        \* made while the file cannot be loaded leaves it as it was
        /\ \A u \in LoginNames, p \in Passwords :
              (/\ authentication_status[s] # "True"
               /\ ~ValidCredentials(u, p)
               /\ LoginSubmit(s, u, p)) =>
                  authentication_status'[s] =
                      IF Loads(file) THEN "False" ELSE authentication_status[s]
        \* logout returns the session to unset
        /\ (/\ authentication_status[s] = "True"
            /\ Loads(file)
            /\ LogoutClick(s)) =>
                  authentication_status'[s] = "None" /\ username'[s] = "None"

\* C3: a session becomes authenticated(username) only through a submit whose
\* username is a key of the store and whose password verifies against the
\* stored hash; any other submit handled by the login form leaves it failed;
\* logout returns it to unset; and the username is present exactly when the
\* status is authenticated.
C3_AuthFlow ==
    /\ []UsernameIffAuthenticated
    /\ [][AuthFlowStep]_vars

\* one session is authenticated as a user added through the panel, the other
\* has just failed a login
C3_Witness ==
    /\ authentication_status["s1"] = "True"
    /\ username["s1"] = "bob"
    /\ Loads(file)
    /\ "bob" \in DOMAIN file.users
    /\ file.users["bob"].name = "Robert"
    /\ authentication_status["s2"] = "False"

(***************************************************************************)
(* C8                                                                      *)
(***************************************************************************)
\* C8: every load of the credentials file sees the complete store from before
\* or from after a save, never an empty file, so no run of any session fails
\* at a load because another session is saving.
C8_NoLoadSeesTruncatedFile ==
    \A s \in Sessions : page[s] \notin LoadFailures

(***************************************************************************)
(* C9                                                                      *)
(***************************************************************************)
\* C9: whenever a session whose status is authenticated is about to start an
\* interaction, its username is a key of the credential store as the file then
\* holds it.
C9_AuthenticatedUserInStore ==
    \A s \in Sessions :
        (pc[s] = "idle" /\ authentication_status[s] = "True" /\ Loads(file)) =>
            username[s] \in DOMAIN file.users

(***************************************************************************)
(* C10                                                                     *)
(***************************************************************************)
\* the last run of session s entered admin_page
PanelEntered(s) ==
    page[s] \in AdminPages \cup ListFailures \cup {"admin_saving", "exception_panel"}

\* C10: the admin panel is rendered by a run only if the session is
\* authenticated and the role that run looked up for its username is admin.
C10_PanelOnlyForAdminRole ==
    \A s \in Sessions :
        PanelEntered(s) =>
            /\ authentication_status[s] = "True"
            /\ user_role[s] = "admin"

\* the flag set during an admin login is still set, a user of role user is now
\* logged in in the same session, and was given the main page
C10_Witness ==
    \E s \in Sessions :
        /\ show_admin[s]
        /\ authentication_status[s] = "True"
        /\ user_role[s] = "user"
        /\ page[s] = "main"
(***************************************************************************)
(* C4                                                                      *)
(***************************************************************************)
\* the three predicates of the claim, for one record
Matches(v, query, ids, range) ==
    /\ \/ query = <<>>
       \/ Contains(Lower(query), Lower(v.title))
       \/ Contains(Lower(query), Lower(v.channel))
    /\ ids = {} \/ v.category_id \in ids
    /\ range[1] <= v.view_count /\ v.view_count <= range[2]

\* C4: filter_videos returns exactly the sub-sequence of its input, in the
\* input's order, of the records that match the query (if any) in title or
\* channel without regard to case, belong to a selected category (if any is
\* selected) and have a view count within the inclusive range.
C4_FilterIsConjunction ==
    view \in {"grid", "no_match"} =>
        filtered_videos =
            SelectSeq(chart,
                      LAMBDA v : Matches(v, search_query,
                                         SelectedCategoryIds(categories,
                                                             selected_categories),
                                         ViewCountRange(slider)))

\* a query in another case than the title, a selected category and a range whose
\* upper end is a record's view count keep one record of two
C4_Witness ==
    /\ view = "grid"
    /\ search_query = <<"C", "a", "R">>
    /\ selected_categories = {"Autos"}
    /\ slider = <<0, 1000>>
    /\ Len(chart) = 2
    /\ chart[1].id = "v2" /\ chart[2].id = "v1"
    /\ Len(filtered_videos) = 1
    /\ filtered_videos[1].id = "v1"

(***************************************************************************)
(* C5                                                                      *)
(***************************************************************************)
\* C5 as stated: with the widgets as the page starts them the filter restricts
\* nothing, and the run's filtered list is the fetched list.
C5_DefaultCriteriaAreIdentity ==
    (pristine /\ view # "none") => filtered_videos = chart

\* C5 amended: the criteria the page starts with are the empty query, no
\* category and the range 0 to 1000 ten-thousands (0 to 10,000,000 views), not
\* the slider's full 0 to 10000; filtering a fetched list with them returns, in
\* order, exactly its records of at most 10,000,000 views.
C5_DefaultCriteriaKeepUpToTenMillion ==
    (pristine /\ view # "none") =>
        /\ search_query = <<>>
        /\ selected_categories = {}
        /\ slider = <<0, 1000>>
        /\ filtered_videos =
               SelectSeq(chart, LAMBDA v : 0 <= v.view_count /\ v.view_count <= 10000000)

\* a fetched record of more than 10,000,000 views is dropped by the untouched page
C5_Witness ==
    /\ pristine
    /\ view = "grid"
    /\ Len(chart) = 2
    /\ chart[1].view_count = 20000000
    /\ Len(filtered_videos) = 1
    /\ filtered_videos[1].view_count = 10000000

(***************************************************************************)
(* C7                                                                      *)
(***************************************************************************)
LacksRequired(item) == ~({"title", "channelTitle", "high"} \subseteq item.keys)

CompleteButForStatistics(item) == item.keys = AllKeys \ {"statistics", "viewCount",
                                                         "likeCount", "commentCount"}

\* C7: with a client at hand fetch_popular_videos returns a list whatever the
\* provider does: the empty list for no items, for an API error with any body
\* and for a transport error; an item without title, channel or usable
\* thumbnail is left out, and an item without statistics is kept with counts 0.
C7_FetchAlwaysReturnsList ==
    (fpc = "done" /\ service = "ok") =>
        /\ fetch_out.outcome = "returned"
        /\ response.kind \in {"http_error", "transport_error"} => fetch_out.videos = <<>>
        /\ response.kind = "items" =>
              \A i \in 1..Len(response.items) :
                  LET item == response.items[i] IN
                  /\ LacksRequired(item) =>
                        \A j \in 1..Len(fetch_out.videos) : fetch_out.videos[j].id # item.id
                  /\ CompleteButForStatistics(item) =>
                        \E j \in 1..Len(fetch_out.videos) :
                            /\ fetch_out.videos[j].id = item.id
                            /\ fetch_out.videos[j].view_count = 0
                            /\ fetch_out.videos[j].like_count = 0
                            /\ fetch_out.videos[j].comment_count = 0

(***************************************************************************)
(* C6                                                                      *)
(***************************************************************************)
\* a missing component counts as 0
Val(c) == IF c = <<>> THEN 0 ELSE c[1]

\* what the claim says format_duration returns for hours h, minutes m, seconds s
Rendered(h, m, s) ==
    IF Val(h) > 0
    THEN ToStr(Val(h)) \o <<":">> \o Pad2(Val(m)) \o <<":">> \o Pad2(Val(s))
    ELSE ToStr(Val(m)) \o <<":">> \o Pad2(Val(s))

\* C6: for every duration 'PT[<h>H][<m>M][<s>S]' format_duration returns h:MM:SS
\* when h > 0 and m:SS otherwise ('PT1H2M3S' gives '1:02:03', 'PT4M5S' gives
\* '4:05'), and only an all-zero duration gives '0:00'.
C6_FormatsIsoDurations ==
    dpc = "done" =>
        \A h \in HourValues, m \in MinuteValues, s \in SecondValues :
            duration_str = IsoDuration(h, m, s) => duration_out = Rendered(h, m, s)

====
